---- MODULE Spec2Model ----
(***************************************************************************)
(* State-machine model of src/cluster.py: SimpleDeliveryClusterer          *)
(* (geocode_address, cluster_addresses) and the pipeline driver main().    *)
(*                                                                         *)
(* External collaborators are modelled by their observable outcomes:       *)
(*   - geolocator.geocode(address): a location, no location (None), a      *)
(*     GeocoderTimedOut, or any other Exception;                           *)
(*   - KMeans(n_clusters=k).fit_predict(X): one label in 0..k-1 per point, *)
(*     or a parameter error when k < 1;                                    *)
(*   - open()/json.dump(): success or an OSError.                          *)
(* Durations are in tenths of a second: time.sleep(1) is 10.               *)
(***************************************************************************)
EXTENDS Integers, Sequences, FiniteSets, TLC

VARIABLES
    stdin,          \* the line typed at the prompt (a sequence of characters)
    addresses,      \* the address list handed to cluster_addresses
    file,           \* driver_routes.json on disk
    pc,             \* position of the single thread of control
    num_drivers,    \* main's num_drivers (0 until read)
    idx,            \* 1-based position of addr in "for addr in addresses"
    i,              \* geocode_address: loop variable of "for i in range(retries)"
    log,            \* geocode_address: sleeps and lookups of the current call
    result,         \* geocode_address: <<>> for None, <<point>> for a dict
    location_data,  \* cluster_addresses: the geocoded points collected
    kept,           \* history: input positions whose geocode_address call returned a point
    clusters,       \* cluster_addresses: labels returned by fit_predict
    kmeans_calls,   \* history: number of KMeans fit_predict invocations
    driver_routes,  \* the mapping returned by cluster_addresses
    error,          \* <<>> or <<exception>>: the exception raised, if any
    stdout          \* lines printed by main

vars == <<stdin, addresses, file, pc, num_drivers, idx, i, log, result,
          location_data, kept, clusters, kmeans_calls, driver_routes,
          error, stdout>>

(* ------------------------------ bounds --------------------------------- *)

\* Longest address list explored.
MaxAddrs == 3

\* Address strings; two of them, so that an input may repeat an address.
Addr == {"A", "B"}

\* Coordinates the geocoding service may answer with.
Coords == {<<0, 0>>, <<5, 5>>}

\* Values of random.uniform(0, 1), in tenths of a second.
Jitter == {0, 5, 10}

SeqsUpTo(S, n) == UNION {[1..m -> S] : m \in 0..n}

(* --------------------------- geocode_address --------------------------- *)

\* Variant: one attempt more than the code allows.
retries_plus_one == 3 + 1

retries == 3

None == <<>>

Point(address, c) == [location |-> address, stopover |-> TRUE, coords |-> c]

\* Variant: a linear wait, 2 * i, instead of the exponential one.
wait_time_linear(n, jitter) == 10 * (2 * n) + jitter

\* wait_time = (2 ** i) + random.uniform(0, 1)
wait_time(n, jitter) == 10 * (2 ^ n) + jitter

\* What one pass through the loop body decides: return a value, go on to
\* the next i (after a backoff sleep or not), or let an exception out.
Return(r)   == [ctl |-> "return", result |-> r, backoff |-> FALSE]
Continue(b) == [ctl |-> "continue", result |-> None, backoff |-> b]
Raise       == [ctl |-> "raise", result |-> None, backoff |-> FALSE]

\* "if location: return {...}"
on_location(address, c) == Return(<<Point(address, c)>>)

\* Variant: a None answer ends the call at once.
on_none_return(n) == Return(None)

\* geocode() returned None: "if location:" is false, no handler runs; the
\* loop goes on to the next i, and "return None" follows the last one.
on_none(n) == IF n + 1 < retries THEN Continue(FALSE) ELSE Return(None)

\* "except GeocoderTimedOut:"
on_GeocoderTimedOut(n) == IF n < retries - 1 THEN Continue(TRUE) ELSE Return(None)

\* Variant: no "except Exception" clause, the exception leaves the call.
on_Exception_uncaught(n) == Raise

\* "except Exception: return None"
on_Exception(n) == Return(None)

Ev(op, n, t, out) == [op |-> op, i |-> n, t |-> t, out |-> out]

\* One pass of the loop body with lookup outcome out, decided by d.
Attempt(out, d, jitter) ==
    LET tried == log \o <<Ev("rate_sleep", i, 10, ""), Ev("geocode", i, 0, out)>>
    IN  /\ pc = "attempt"
        /\ log' = IF d.backoff
                  THEN Append(tried, Ev("backoff_sleep", i, wait_time(i, jitter), ""))
                  ELSE tried
        /\ CASE d.ctl = "return" ->
                  /\ result' = d.result
                  /\ pc' = "returned"
                  /\ UNCHANGED <<i, error>>
             [] d.ctl = "continue" ->
                  /\ i' = i + 1
                  /\ UNCHANGED <<result, pc, error>>
             [] OTHER ->
                  /\ error' = <<[type |-> "Exception", msg |-> <<"geocode">>, line |-> 21]>>
                  /\ pc' = "raised"
                  /\ UNCHANGED <<i, result>>
        /\ UNCHANGED <<stdin, addresses, file, num_drivers, idx, location_data,
                       kept, clusters, kmeans_calls, driver_routes, stdout>>

LookupSuccess == \E c \in Coords : Attempt("success", on_location(addresses[idx], c), 0)

LookupNotFound == Attempt("not_found", on_none(i), 0)

LookupTimeout ==
    \E jitter \in (IF on_GeocoderTimedOut(i).backoff THEN Jitter ELSE {0}) :
        Attempt("timeout", on_GeocoderTimedOut(i), jitter)

LookupError == Attempt("error", on_Exception(i), 0)

(* -------------------------- cluster_addresses -------------------------- *)

\* "if location: location_data.append(location)"
collect(ld, r) == IF r # None THEN Append(ld, r[1]) ELSE ld

\* The statements after geocode_address returned: collect, then the next
\* addr (a fresh geocode_address call) or the end of the loop.
Collect ==
    /\ pc = "returned"
    /\ location_data' = collect(location_data, result)
    /\ kept' = IF result # None THEN Append(kept, idx) ELSE kept
    /\ idx' = idx + 1
    /\ i' = 0
    /\ log' = <<>>
    /\ result' = None
    /\ pc' = IF idx < Len(addresses) THEN "attempt" ELSE "validate"
    /\ UNCHANGED <<stdin, addresses, file, num_drivers, clusters,
                   kmeans_calls, driver_routes, error, stdout>>

\* Variant: "<=" for "<".
insufficient_le(n, k) == n <= k

\* "if len(location_data) < num_drivers:"
insufficient(n, k) == n < k

\* Variant: the message carries the number of input addresses.
NotEnough_input_count(n, k) ==
    [type |-> "ValueError",
     msg  |-> <<"Not enough valid addresses (", Len(addresses), ") for ", k, " drivers">>,
     line |-> 48]

\* ValueError(f"Not enough valid addresses ({len(location_data)}) for {num_drivers} drivers")
NotEnough(n, k) ==
    [type |-> "ValueError",
     msg  |-> <<"Not enough valid addresses (", n, ") for ", k, " drivers">>,
     line |-> 48]

ValidateFail ==
    /\ pc = "validate"
    /\ insufficient(Len(location_data), num_drivers)
    /\ error' = <<NotEnough(Len(location_data), num_drivers)>>
    /\ pc' = "raised"
    /\ UNCHANGED <<stdin, addresses, file, num_drivers, idx, i, log, result,
                   location_data, kept, clusters, kmeans_calls, driver_routes, stdout>>

ValidatePass ==
    /\ pc = "validate"
    /\ ~insufficient(Len(location_data), num_drivers)
    /\ pc' = "kmeans"
    /\ UNCHANGED <<stdin, addresses, file, num_drivers, idx, i, log, result,
                   location_data, kept, clusters, kmeans_calls, driver_routes,
                   error, stdout>>

\* KMeans rejects n_clusters < 1, and fewer samples than clusters.
kmeans_rejects(n, k) == k < 1 \/ n < k

\* "kmeans = KMeans(n_clusters=num_drivers, random_state=42)": the labels
\* fit_predict may answer for n points: any label in 0..k-1 for each.
Labelings(n, k) == [1..n -> 0..(k - 1)]

KMeansRejects ==
    /\ pc = "kmeans"
    /\ kmeans_rejects(Len(location_data), num_drivers)
    /\ kmeans_calls' = kmeans_calls + 1
    /\ error' = <<[type |-> "InvalidParameterError",
                   msg  |-> <<"n_clusters", num_drivers, "n_samples", Len(location_data)>>,
                   line |-> 55]>>
    /\ pc' = "raised"
    /\ UNCHANGED <<stdin, addresses, file, num_drivers, idx, i, log, result,
                   location_data, kept, clusters, driver_routes, stdout>>

KMeansFit ==
    /\ pc = "kmeans"
    /\ ~kmeans_rejects(Len(location_data), num_drivers)
    /\ kmeans_calls' = kmeans_calls + 1
    /\ \E labels \in Labelings(Len(location_data), num_drivers) : clusters' = labels
    /\ pc' = "organize"
    /\ UNCHANGED <<stdin, addresses, file, num_drivers, idx, i, log, result,
                   location_data, kept, driver_routes, error, stdout>>

\* Variant: the key is built from cluster_id, not cluster_id + 1.
driver_id_zero_based(cluster_id) == <<"driver_", cluster_id>>

\* driver_id = f"driver_{cluster_id + 1}"
driver_id(cluster_id) == <<"driver_", cluster_id + 1>>

Waypoint(p) == [location |-> p.location, stopover |-> TRUE]

\* Variant: the entry is created for every point, so a later point of the
\* same cluster replaces the earlier ones.
add_waypoint_reset(routes, d, w) ==
    [k \in DOMAIN routes \cup {d} |->
        IF k = d THEN [waypoints |-> <<w>>] ELSE routes[k]]

\* Variant: the waypoint is put in front of the list.
add_waypoint_front(routes, d, w) ==
    [k \in DOMAIN routes \cup {d} |->
        IF k = d
        THEN [waypoints |-> <<w>> \o (IF d \in DOMAIN routes THEN routes[d].waypoints ELSE <<>>)]
        ELSE routes[k]]

\* "if driver_id not in driver_routes: driver_routes[driver_id] = {"waypoints": []}"
\* then "driver_routes[driver_id]["waypoints"].append({...})"
add_waypoint(routes, d, w) ==
    [k \in DOMAIN routes \cup {d} |->
        IF k = d
        THEN [waypoints |-> Append(IF d \in DOMAIN routes THEN routes[d].waypoints ELSE <<>>, w)]
        ELSE routes[k]]

\* "for i, cluster_id in enumerate(clusters):", the first n iterations.
RECURSIVE organize(_, _, _)
organize(ld, cl, n) ==
    IF n = 0 THEN <<>>
    ELSE add_waypoint(organize(ld, cl, n - 1), driver_id(cl[n]), Waypoint(ld[n]))

Organize ==
    /\ pc = "organize"
    /\ driver_routes' = organize(location_data, clusters, Len(clusters))
    /\ pc' = "open"
    /\ UNCHANGED <<stdin, addresses, file, num_drivers, idx, i, log, result,
                   location_data, kept, clusters, kmeans_calls, error, stdout>>

(* -------------------------------- main --------------------------------- *)

DigitChars == <<"0", "1", "2", "3", "4", "5", "6", "7", "8", "9">>

IsDigit(ch) == \E k \in DOMAIN DigitChars : DigitChars[k] = ch

DigitVal(ch) == (CHOOSE k \in DOMAIN DigitChars : DigitChars[k] = ch) - 1

Digits(line) == IF line # <<>> /\ line[1] = "-" THEN Tail(line) ELSE line

\* int(s) accepts an optional sign followed by at least one digit.
int_ok(line) ==
    /\ Digits(line) # <<>>
    /\ \A k \in DOMAIN Digits(line) : IsDigit(Digits(line)[k])

RECURSIVE DecVal(_)
DecVal(ds) ==
    IF ds = <<>> THEN 0
    ELSE 10 * DecVal(SubSeq(ds, 1, Len(ds) - 1)) + DigitVal(ds[Len(ds)])

int(line) == IF line[1] = "-" THEN 0 - DecVal(Digits(line)) ELSE DecVal(Digits(line))

\* Lines typed at the prompt: 0 .. MaxAddrs + 1, -1, a non-number, nothing.
Lines ==
    {<<DigitChars[n + 1]>> : n \in 0..(MaxAddrs + 1)} \cup {<<"-", "1">>, <<"a">>, <<>>}

OnDisk(state, content) == [state |-> state, content |-> content]

\* "num_drivers = int(input(...))" stands before the try statement; then
\* cluster_addresses starts with the first addr, if there is one.
ReadInput ==
    /\ pc = "input"
    /\ IF int_ok(stdin)
       THEN /\ num_drivers' = int(stdin)
            /\ pc' = IF addresses = <<>> THEN "validate" ELSE "attempt"
            /\ UNCHANGED error
       ELSE /\ error' = <<[type |-> "ValueError", msg |-> <<"invalid literal for int()">>,
                           line |-> 87]>>
            /\ pc' = "crashed"
            /\ UNCHANGED num_drivers
    /\ UNCHANGED <<stdin, addresses, file, idx, i, log, result, location_data,
                   kept, clusters, kmeans_calls, driver_routes, stdout>>

\* "with open('driver_routes.json', 'w') as f:" creates or truncates the file.
OpenOk ==
    /\ pc = "open"
    /\ file' = OnDisk("empty", <<>>)
    /\ pc' = "dump"
    /\ UNCHANGED <<stdin, addresses, num_drivers, idx, i, log, result, location_data,
                   kept, clusters, kmeans_calls, driver_routes, error, stdout>>

OpenFails ==
    /\ pc = "open"
    /\ error' = <<[type |-> "OSError", msg |-> <<"open">>, line |-> 94]>>
    /\ pc' = "raised"
    /\ UNCHANGED <<stdin, addresses, file, num_drivers, idx, i, log, result,
                   location_data, kept, clusters, kmeans_calls, driver_routes, stdout>>

\* "json.dump(routes, f, indent=2)" and the print that follows.
DumpOk ==
    /\ pc = "dump"
    /\ file' = OnDisk("written", driver_routes)
    /\ stdout' = Append(stdout, <<"Routes exported to driver_routes.json">>)
    /\ pc' = "done"
    /\ UNCHANGED <<stdin, addresses, num_drivers, idx, i, log, result, location_data,
                   kept, clusters, kmeans_calls, driver_routes, error>>

DumpFails ==
    /\ pc = "dump"
    /\ file' = OnDisk("partial", <<>>)
    /\ error' = <<[type |-> "OSError", msg |-> <<"write">>, line |-> 95]>>
    /\ pc' = "raised"
    /\ UNCHANGED <<stdin, addresses, num_drivers, idx, i, log, result, location_data,
                   kept, clusters, kmeans_calls, driver_routes, stdout>>

\* "except Exception as e: print(f"Error: {str(e)}")"
HandleError ==
    /\ pc = "raised"
    /\ stdout' = Append(stdout, <<"Error: ">> \o error[1].msg)
    /\ pc' = "done"
    /\ UNCHANGED <<stdin, addresses, file, num_drivers, idx, i, log, result,
                   location_data, kept, clusters, kmeans_calls, driver_routes, error>>

Init ==
    /\ stdin \in Lines
    /\ addresses \in SeqsUpTo(Addr, MaxAddrs)
    /\ file \in {OnDisk("absent", <<>>), OnDisk("previous", <<>>)}
    /\ pc = "input"
    /\ num_drivers = 0
    /\ idx = 1
    /\ i = 0
    /\ log = <<>>
    /\ result = None
    /\ location_data = <<>>
    /\ kept = <<>>
    /\ clusters = <<>>
    /\ kmeans_calls = 0
    /\ driver_routes = <<>>
    /\ error = <<>>
    /\ stdout = <<>>

Next ==
    \/ ReadInput
    \/ LookupSuccess
    \/ LookupNotFound
    \/ LookupTimeout
    \/ LookupError
    \/ Collect
    \/ ValidateFail
    \/ ValidatePass
    \/ KMeansRejects
    \/ KMeansFit
    \/ Organize
    \/ OpenOk
    \/ OpenFails
    \/ DumpOk
    \/ DumpFails
    \/ HandleError

Spec == Init /\ [][Next]_vars

(* ======================= properties: geocode_address ==================== *)

\* The lookups of the current geocode_address call, and their outcomes.
Lookups == SelectSeq(log, LAMBDA e : e.op = "geocode")

Outs == [j \in 1..Len(Lookups) |-> Lookups[j].out]

InCall == pc \in {"attempt", "returned"}

IsPointFor(r, address) == \E c \in Coords : r = <<Point(address, c)>>

NoExceptionLeavesGeocode == error = <<>> \/ error[1].line # 21

C2_AtMostThreeAttempts ==
    InCall =>
        /\ Len(Outs) <= 3
        /\ \A j \in DOMAIN Outs : Outs[j] = "success" => j = Len(Outs) /\ pc = "returned"
        /\ pc = "attempt" => Len(Outs) = i /\ i < 3
        /\ (pc = "returned" /\ \A j \in DOMAIN Outs : Outs[j] = "timeout") =>
              Len(Outs) = 3 /\ result = None
        /\ (Len(Outs) >= 2 /\ Outs[1] = "timeout" /\ Outs[2] = "success") =>
              Len(Outs) = 2 /\ pc = "returned" /\ IsPointFor(result, addresses[idx])

\* Three timeouts in a row: the call has returned None after 3 lookups.
C2_Witness ==
    /\ pc = "returned"
    /\ Outs = <<"timeout", "timeout", "timeout">>
    /\ result = None

FollowedBy(j, op) ==
    \E p \in 1..(Len(log) - 1) :
        /\ log[p].op = "geocode"
        /\ log[p].i = j - 1
        /\ log[p + 1].op = op

BackoffAt(p) == p <= Len(log) /\ log[p].op = "backoff_sleep"

\* The wait after a timeout on attempt n: 2^n plus a jitter in [0, 1].
BackoffWaitOk(p) ==
    /\ BackoffAt(p + 1)
    /\ log[p + 1].i = log[p].i
    /\ log[p + 1].t >= 10 * (2 ^ log[p].i)
    /\ log[p + 1].t <= 10 * (2 ^ log[p].i) + 10

WaitAfterTimeout ==
    \A p \in DOMAIN log :
        (log[p].op = "geocode" /\ log[p].out = "timeout" /\ log[p].i < 2) =>
            BackoffWaitOk(p)

NoWaitAfterFinalAttempt ==
    /\ \A p \in DOMAIN log : log[p].op = "backoff_sleep" => log[p].i < 2
    /\ pc = "returned" => log[Len(log)].op = "geocode"

N == Len(location_data)

\* cluster_addresses has returned its mapping to main.
Returned == pc \in {"open", "dump"}

\* The exception was raised inside cluster_addresses (lines 38-70).
ClusterError == error # <<>> /\ error[1].line >= 38 /\ error[1].line <= 70

\* The insufficient-address error carrying count n and request k.
IsNotEnough(e, n, k) ==
    /\ e.type = "ValueError"
    /\ e.line = 48
    /\ e.msg = <<"Not enough valid addresses (", n, ") for ", k, " drivers">>

FileUntouched == file.state \in {"absent", "previous"}

\* C3: whenever fewer than num_drivers addresses geocoded, cluster_addresses
\* fails with the insufficient-address error carrying the geocoded count and
\* num_drivers, the clustering step is never invoked, and main leaves
\* driver_routes.json alone and prints that error.
C3_InsufficientAborts ==
    (pc \notin {"input", "attempt", "returned", "validate", "crashed"} /\ N < num_drivers) =>
        /\ error # <<>>
        /\ IsNotEnough(error[1], N, num_drivers)
        /\ kmeans_calls = 0
        /\ clusters = <<>>
        /\ driver_routes = <<>>
        /\ FileUntouched
        /\ pc \in {"raised", "done"}
        /\ pc = "done" => stdout = <<<<"Error: ">> \o error[1].msg>>

\* Three addresses, one of them geocoded, three drivers asked for: the run
\* has ended with the error printed.
C3_Witness ==
    /\ pc = "done"
    /\ Len(addresses) = 3
    /\ N = 1
    /\ num_drivers = 3
    /\ stdout # <<>>

Keys == DOMAIN driver_routes

\* The places <<driver, position>> of the returned mapping that hold address a.
Occ(a) ==
    {w \in Keys \X (1..Len(addresses)) :
        /\ w[2] <= Len(driver_routes[w[1]].waypoints)
        /\ driver_routes[w[1]].waypoints[w[2]].location = a}

WaypointAddrs == {a \in Addr : Occ(a) # {}}

GeocodedAddrs == {addresses[kept[j]] : j \in DOMAIN kept}

FailedAddrs == {addresses[p] : p \in (1..Len(addresses)) \ {kept[j] : j \in DOMAIN kept}}

GroupsOk ==
    /\ Cardinality(Keys) <= num_drivers
    /\ \A d \in Keys : driver_routes[d].waypoints # <<>>

\* C4 as stated: for num_drivers in 1..N the mapping has at most num_drivers
\* groups, all non-empty; the addresses in its waypoint lists are exactly
\* the successfully geocoded ones, each address appearing exactly once, and
\* no address whose geocoding failed appears.
C4_Original ==
    (Returned /\ num_drivers \in 1..N) =>
        /\ GroupsOk
        /\ WaypointAddrs = GeocodedAddrs
        /\ \A a \in GeocodedAddrs : Cardinality(Occ(a)) = 1
        /\ WaypointAddrs \cap FailedAddrs = {}

Distinct(seq) == \A p, q \in DOMAIN seq : p # q => seq[p] # seq[q]

\* C4 amended: for num_drivers in 1..N the mapping has at most num_drivers
\* groups, all non-empty, and its waypoint lists hold exactly one waypoint
\* per input position that geocoded successfully: an address appears as
\* often as it has successful occurrences in the input, and an address
\* without a successful occurrence does not appear. For an input without
\* repeated addresses that is each geocoded address exactly once and no
\* failed address.
C4_OnePerGeocodedPosition ==
    (Returned /\ num_drivers \in 1..N) =>
        /\ GroupsOk
        /\ \A j \in DOMAIN kept : location_data[j].location = addresses[kept[j]]
        /\ \A a \in Addr :
              Cardinality(Occ(a)) = Cardinality({j \in DOMAIN kept : addresses[kept[j]] = a})
        /\ \A d \in Keys : Len(driver_routes[d].waypoints) <= Len(addresses)
        /\ Distinct(addresses) =>
              /\ WaypointAddrs = GeocodedAddrs
              /\ \A a \in GeocodedAddrs : Cardinality(Occ(a)) = 1
              /\ WaypointAddrs \cap FailedAddrs = {}

\* Three addresses, the second one dropped, two drivers, two groups.
C4_Witness ==
    /\ Returned
    /\ Len(addresses) = 3
    /\ kept = <<1, 3>>
    /\ num_drivers = 2
    /\ Cardinality(Keys) = 2

\* The input positions of the points labelled c, in the order of location_data.
PositionsOf(c) ==
    LET js == SelectSeq([j \in 1..N |-> j], LAMBDA j : clusters[j] = c)
    IN  [m \in 1..Len(js) |-> kept[js[m]]]

Increasing(seq) == \A p, q \in DOMAIN seq : p < q => seq[p] < seq[q]

\* C5: each driver's waypoint list holds the addresses of the input
\* positions assigned to its cluster, in increasing input position, whatever
\* the labels and whichever addresses were dropped.
C5_InputOrder ==
    Returned =>
        \A d \in Keys :
            LET ps == PositionsOf(d[2] - 1)
                ws == driver_routes[d].waypoints
            IN  /\ Increasing(ps)
                /\ Len(ws) = Len(ps)
                /\ \A m \in DOMAIN ws : ws[m].location = addresses[ps[m]]

\* "A", a dropped address, "B": both survivors in one cluster.
C5_Witness ==
    /\ Returned
    /\ addresses[1] = "A"
    /\ Len(addresses) = 3
    /\ addresses[3] = "B"
    /\ kept = <<1, 3>>
    /\ clusters = <<0, 0>>
    /\ Len(driver_routes[<<"driver_", 1>>].waypoints) = 2

\* C6: cluster id c is stored under driver_(c+1); every key is one of
\* driver_1 .. driver_num_drivers; a key is present exactly when some point
\* carries its cluster id; no entry has an empty waypoint list.
C6_DriverKeys ==
    Returned =>
        /\ \A d \in Keys : d[1] = "driver_" /\ d[2] \in 1..num_drivers
        /\ \A c \in 0..(num_drivers - 1) :
              <<"driver_", c + 1>> \in Keys <=> \E j \in DOMAIN clusters : clusters[j] = c
        /\ \A d \in Keys : driver_routes[d].waypoints # <<>>
        /\ \A j \in DOMAIN clusters :
              \E m \in DOMAIN driver_routes[<<"driver_", clusters[j] + 1>>].waypoints :
                  driver_routes[<<"driver_", clusters[j] + 1>>].waypoints[m].location
                      = location_data[j].location

\* Three drivers, cluster 1 left empty: driver_1 and driver_3 only.
C6_Witness ==
    /\ Returned
    /\ num_drivers = 3
    /\ Keys = {<<"driver_", 1>>, <<"driver_", 3>>}

\* C8 as stated: for every integer num_drivers, the only exception that
\* leaves cluster_addresses is the insufficient-count validation error.
C8_Original ==
    ClusterError => IsNotEnough(error[1], N, num_drivers)

\* C8 amended: for num_drivers >= 1, cluster_addresses either returns a
\* mapping or fails with the insufficient-count validation error, and it
\* fails exactly when fewer than num_drivers addresses geocoded; for
\* num_drivers <= 0 the validation never fires and the clustering library's
\* rejection of n_clusters is the error that reaches the caller.
C8_ValidationOnlyForPositive ==
    /\ ClusterError =>
          IF num_drivers >= 1
          THEN N < num_drivers /\ IsNotEnough(error[1], N, num_drivers)
          ELSE error[1].type = "InvalidParameterError" /\ error[1].line = 55
    /\ pc \in {"open", "dump", "raised", "done"} =>
          (ClusterError <=> (N < num_drivers \/ num_drivers < 1))
    /\ (Returned \/ (pc = "done" /\ ~ClusterError)) =>
          kmeans_calls = 1 /\ Len(clusters) = N /\ N >= num_drivers /\ num_drivers >= 1

\* num_drivers = -1: the validation passed and KMeans raised.
C8_Witness ==
    /\ pc = "raised"
    /\ num_drivers = 0 - 1
    /\ ClusterError
    /\ error[1].line = 55

(* ============================ properties: main ========================== *)

\* C9: no exception of main's orchestration, reading the driver count
\* included, ends the process uncaught; every failing run prints the error
\* and leaves driver_routes.json neither created, truncated nor partly
\* written.
C9_Original ==
    /\ pc # "crashed"
    /\ (pc = "done" /\ error # <<>>) =>
          /\ FileUntouched
          /\ stdout = <<<<"Error: ">> \o error[1].msg>>

====
